---- MODULE Spec2Model ----
(***************************************************************************)
(* Paypack payment demo backend: the token manager and gateway client of  *)
(* PaypackService (paypack.service.ts) and the initiate-payment, webhook   *)
(* and socket handlers of server.ts.                                       *)
(*                                                                         *)
(* One action is one event-loop task of the Node process: the callback of  *)
(* an I/O event together with every promise continuation it makes runnable *)
(* (the microtask queue is drained before the next task starts).  An await *)
(* on I/O (prisma, axios) therefore ends an action; an await on an already *)
(* computed value does not.                                                *)
(***************************************************************************)
EXTENDS Integers, Sequences, FiniteSets, TLC

\* ------------------------------------------------------------------ bounds
MaxReq == 2          \* initiate-payment requests
MaxHooks == 2        \* webhook requests
MaxSockets == 2      \* socket connections
MaxNow == 60000      \* last clock value, in ms
TimeStep == 30000    \* clock granularity, in ms
MaxRefs == 2         \* external references the gateway hands out
DigestLen == 2       \* bytes of the (shortened) digest

\* ------------------------------------------------------- program constants
MinAmount == 100         \* cashin: params.amount < 100
SkewSeconds == 60        \* getValidAccessToken: addSeconds(tokenExpiresAt, -60)
PhoneLen == 10           \* /^07\d{8}$/ : two literal characters and 8 digits

WebhookSecret == 7       \* config.PAYPACK_WEBHOOK_SECRET (any non-empty value)

NoToken == 0             \* accessToken = null
NoDate == 0 - 1          \* tokenExpiresAt = null
NoPromise == 0           \* tokenRefreshPromise = null
NoRef == 0               \* paypackRef = NULL
NoPayment == 0
NoSocket == 0

VARIABLES
    now,                  \* new Date(), ms
    accessToken,          \* PaypackService.accessToken
    tokenExpiresAt,       \* PaypackService.tokenExpiresAt, ms
    isRefreshingToken,    \* PaypackService.isRefreshingToken
    tokenRefreshPromise,  \* PaypackService.tokenRefreshPromise: the refresh cycle it belongs to
    authInFlight,         \* authenticate requests sent and not yet answered (cycle numbers)
    authIssued,           \* number of authenticate requests sent so far
    cashinIssued,         \* number of cash-in requests sent so far
    req,                  \* the initiate-payment requests
    payments,             \* the Payment table
    sockets,              \* socket connections
    paymentSockets,       \* Map paymentId -> socket.id, in insertion order
    hook,                 \* the webhook requests
    pushed,               \* payment:update events emitted, in order
    probe                 \* a signature check on its own: its arguments and its result

tokenVars == <<accessToken, tokenExpiresAt, isRefreshingToken, tokenRefreshPromise,
               authInFlight, authIssued>>
vars == <<now, accessToken, tokenExpiresAt, isRefreshingToken, tokenRefreshPromise,
          authInFlight, authIssued, cashinIssued, req, payments, sockets,
          paymentSockets, hook, pushed, probe>>

Requests == 1..MaxReq
Hooks == 1..MaxHooks
Sockets == 1..MaxSockets

\* ------------------------------------------------------------------ inputs
Digits == {"0", "1", "2", "3", "4", "5", "6", "7", "8", "9"}
ValidPhone == <<"0", "7", "8", "1", "2", "3", "4", "5", "6", "7">>
LongPhone == ValidPhone \o <<"8">>
PrefixPhone == <<"0", "8", "8", "1", "2", "3", "4", "5", "6", "7">>
AlphaPhone == <<"0", "7", "8", "1", "2", "x", "4", "5", "6", "7">>
EmptyPhone == <<>>
Phones == {ValidPhone, LongPhone, PrefixPhone, AlphaPhone, EmptyPhone}
Amounts == {0, 50, 100}
\* lifetimes (s) of the tokens the gateway hands out, counted from the request's answer
TokenLifetimes == {30, 90}
HttpErrors == {401}
Refs == 1..MaxRefs

\* --------------------------------------------------------- PaypackService
\* ApiError as thrown by the service
ApiError(statusCode, code) == [statusCode |-> statusCode, code |-> code]
NoError == ApiError(0, "")

\* cashin: params.amount < 100 throws
AmountRejected(amount) == amount < MinAmount

\* the pattern without its end anchor, /^07\d{8}/
PhoneMatchesUnanchored(number) ==
    /\ Len(number) >= PhoneLen
    /\ number[1] = "0"
    /\ number[2] = "7"
    /\ \A i \in 3..PhoneLen : number[i] \in Digits

\* cashin: /^07\d{8}$/.test(params.number)
PhoneMatches(number) ==
    /\ Len(number) = PhoneLen
    /\ number[1] = "0"
    /\ number[2] = "7"
    /\ \A i \in 3..PhoneLen : number[i] \in Digits

\* cashin, lines 82-95: the validation error thrown, or NoError
CashinValidation(number, amount) ==
    IF AmountRejected(amount) THEN ApiError(400, "INVALID_AMOUNT")
    ELSE IF ~PhoneMatches(number) THEN ApiError(400, "INVALID_PHONE")
    ELSE NoError

\* handleApiError: the ApiError thrown for a failed gateway call
\* (axios error: response?.status || 500; any other error: 500)
HandleApiError(outcome) ==
    IF outcome.kind = "http" THEN ApiError(outcome.status, "PAYPACK_API_ERROR")
    ELSE IF outcome.kind = "transport" THEN ApiError(500, "PAYPACK_API_ERROR")
    ELSE ApiError(500, "UNKNOWN_PAYPACK_ERROR")

\* the in-progress test with the promise test inverted
RefreshInProgressInverted == isRefreshingToken /\ tokenRefreshPromise = NoPromise

\* getValidAccessToken, line 173: a refresh is in progress, attach to it
RefreshInProgress == isRefreshingToken /\ tokenRefreshPromise # NoPromise

\* the usability test with the skew applied twice
CachedTokenUsableDoubleSkew(token, expiresAt, t) ==
    /\ token # NoToken
    /\ expiresAt # NoDate
    /\ t < expiresAt - 2 * SkewSeconds * 1000

\* getValidAccessToken, lines 178-182: the cached token is usable at time t
CachedTokenUsable(token, expiresAt, t) ==
    /\ token # NoToken
    /\ expiresAt # NoDate
    /\ t < expiresAt - SkewSeconds * 1000

\* a catch block that leaves the cache as it was
AuthFailureKeepsCache == [accessToken |-> accessToken, tokenExpiresAt |-> tokenExpiresAt]

\* authenticate, lines 211-234: what the answer of the authorize call leaves behind
\* and what the refresh promise settles to
AuthFailureCache == [accessToken |-> NoToken, tokenExpiresAt |-> NoDate]

AuthSettle(outcome) ==
    IF outcome.kind = "ok" /\ outcome.access # NoToken
    THEN [accessToken |-> outcome.access,
          tokenExpiresAt |-> outcome.expires * 1000,
          value |-> outcome.access,
          error |-> NoError]
    ELSE [accessToken |-> AuthFailureCache.accessToken,
          tokenExpiresAt |-> AuthFailureCache.tokenExpiresAt,
          value |-> NoToken,
          error |-> IF outcome.kind = "ok"
                    THEN HandleApiError([kind |-> "noaccess"])
                    ELSE HandleApiError(outcome)]

\* ------------------------------------------------- verifyWebhookSignature
\* A signature header: absent, or a string (a sequence of code points)
NoHeader == [present |-> FALSE, value |-> <<>>]
Header(str) == [present |-> TRUE, value |-> str]

\* the base64 alphabet, as character codes: A-Z a-z 0-9 + /
B64Char(i) ==
    IF i < 26 THEN 65 + i
    ELSE IF i < 52 THEN 97 + (i - 26)
    ELSE IF i < 62 THEN 48 + (i - 52)
    ELSE IF i = 62 THEN 43 ELSE 47
B64Pad == 61

\* digest("base64"): three bytes become four characters, the tail is padded with "="
RECURSIVE Base64(_)
Base64(bytes) ==
    IF Len(bytes) = 0 THEN <<>>
    ELSE IF Len(bytes) = 1 THEN
        <<B64Char(bytes[1] \div 4), B64Char((bytes[1] % 4) * 16), B64Pad, B64Pad>>
    ELSE IF Len(bytes) = 2 THEN
        <<B64Char(bytes[1] \div 4),
          B64Char((bytes[1] % 4) * 16 + (bytes[2] \div 16)),
          B64Char((bytes[2] % 16) * 4), B64Pad>>
    ELSE
        <<B64Char(bytes[1] \div 4),
          B64Char((bytes[1] % 4) * 16 + (bytes[2] \div 16)),
          B64Char((bytes[2] % 16) * 4 + (bytes[3] \div 64)),
          B64Char(bytes[3] % 64)>> \o Base64(SubSeq(bytes, 4, Len(bytes)))

\* crypto.createHmac("sha256", secret).update(rawBody): a keyed digest of the body
\* bytes, shortened to DigestLen bytes (SHA-256 itself is not modelled)
RECURSIVE Mix(_, _)
Mix(key, bytes) ==
    IF Len(bytes) = 0 THEN key
    ELSE Mix((key * 31 + bytes[1] * 17 + 5) % 65521, Tail(bytes))

Hmac(key, rawBody) ==
    [i \in 1..DigestLen |-> ((Mix(key, rawBody) + 1) * (37 * i + 11)) % 256]

\* Buffer.from(string): the UTF-8 bytes of the string
RECURSIVE Utf8(_)
Utf8(str) ==
    IF Len(str) = 0 THEN <<>>
    ELSE (IF str[1] < 128 THEN <<str[1]>>
          ELSE <<192 + (str[1] \div 64), 128 + (str[1] % 64)>>) \o Utf8(Tail(str))

\* crypto.timingSafeEqual on two buffers of equal length
RECURSIVE DiffCount(_, _)
DiffCount(a, b) ==
    IF Len(a) = 0 THEN 0
    ELSE (IF a[1] = b[1] THEN 0 ELSE 1) + DiffCount(Tail(a), Tail(b))

TimingSafeEqual(a, b) == DiffCount(a, b) = 0

\* the comparison reduced to its length test
LengthMismatch(sigBuffer, expectedSigBuffer) == Len(sigBuffer) # Len(expectedSigBuffer)

\* the comparison reduced to the first byte of each buffer
FirstByteMismatch(sigBuffer, expectedSigBuffer) ==
    \/ Len(sigBuffer) # Len(expectedSigBuffer)
    \/ sigBuffer[1] # expectedSigBuffer[1]

\* lines 147-150: the signature is rejected
SignatureMismatch(sigBuffer, expectedSigBuffer) ==
    \/ Len(sigBuffer) # Len(expectedSigBuffer)
    \/ ~TimingSafeEqual(sigBuffer, expectedSigBuffer)

\* lines 162-168: the catch block around the comparison rethrows whatever was thrown
VerifyCatch(error) == ApiError(500, "SIGNATURE_VERIFICATION_FAILED")

\* lines 125-170: returns true, or throws
VerifyWebhookSignature(signature, rawBody) ==
    IF ~signature.present \/ signature.value = <<>>
    THEN [returns |-> FALSE, thrown |-> ApiError(403, "INVALID_SIGNATURE")]
    ELSE LET expectedSignature == Base64(Hmac(WebhookSecret, rawBody))
             sigBuffer == Utf8(signature.value)
             expectedSigBuffer == Utf8(expectedSignature)
         IN  IF SignatureMismatch(sigBuffer, expectedSigBuffer)
             THEN [returns |-> FALSE,
                   thrown |-> VerifyCatch(ApiError(401, "INVALID_SIGNATURE"))]
             ELSE [returns |-> TRUE, thrown |-> NoError]

\* express.json: the parsed body of a raw body <<ref, status>>
UpstreamStatus(b) == IF b = 1 THEN "successful" ELSE IF b = 2 THEN "failed" ELSE "rejected"
ParseBody(rawBody) == [ref |-> rawBody[1], status |-> UpstreamStatus(rawBody[2])]

\* raw webhook bodies: a reference the gateway handed out or an unknown one, and a status
RawBodies == {<<ref, st>> : ref \in 1..(MaxRefs + 1), st \in 1..2}

Replace(str, i, c) == [str EXCEPT ![i] = c]

\* signature headers tried against a body: none, empty, the right one, and wrong ones
Signatures(rawBody) ==
    LET good == Base64(Hmac(WebhookSecret, rawBody))
    IN  {NoHeader, Header(<<>>), Header(good)}
        \cup {Header(Replace(good, i, IF good[i] = 65 THEN 66 ELSE 65)) : i \in 1..Len(good)}
        \cup {Header(Replace(good, 1, 233)),
              Header(SubSeq(good, 1, Len(good) - 1)),
              Header(good \o <<B64Pad>>),
              Header(Base64(Hmac(WebhookSecret + 1, rawBody))),
              Header(Base64(Hmac(WebhookSecret, rawBody \o <<0>>)))}

\* the answers the gateway can give to the authorize call of refresh cycle `cycle`
AuthOutcomes(cycle) ==
    {[kind |-> "ok", access |-> cycle, expires |-> (now \div 1000) + l] : l \in TokenLifetimes}
    \cup {[kind |-> "ok", access |-> NoToken, expires |-> 0]}
    \cup {[kind |-> "http", status |-> s] : s \in HttpErrors}
    \cup {[kind |-> "transport"]}

\* ------------------------------------------------------------------- state
IdleReq == [pc |-> "idle", number |-> EmptyPhone, amount |-> 0, paymentId |-> NoPayment,
            cycle |-> NoPromise, via |-> "", token |-> NoToken, error |-> NoError,
            ref |-> NoRef, response |-> 0]

IdleHook == [pc |-> "idle", ref |-> NoRef, status |-> "", genuine |-> FALSE, error |-> NoError,
             paymentId |-> NoPayment, newStatus |-> "", response |-> 0]

NoVerdict == [returns |-> FALSE, thrown |-> NoError]
NoProbe == [signature |-> NoHeader, rawBody |-> <<>>, checked |-> FALSE, verdict |-> NoVerdict]

Init ==
    /\ now = 0
    /\ accessToken = NoToken
    /\ tokenExpiresAt = NoDate
    /\ isRefreshingToken = FALSE
    /\ tokenRefreshPromise = NoPromise
    /\ authInFlight = {}
    /\ authIssued = 0
    /\ cashinIssued = 0
    /\ req = [r \in Requests |-> IdleReq]
    /\ payments = <<>>
    /\ sockets = [s \in Sockets |-> "new"]
    /\ paymentSockets = <<>>
    /\ hook = [w \in Hooks |-> IdleHook]
    /\ pushed = <<>>
    /\ probe = NoProbe

\* ---------------------------------------------------------------- helpers
Settle(r, rec) == [req EXCEPT ![r] = rec]

\* a catch block that answers the failure as a success
InitiateFailureAnswersOk(rec, error) ==
    [rec EXCEPT !.pc = "done", !.error = error, !.response = 200]

\* the catch block of the initiate handler, lines 77-83: every failure answers 500
InitiateFailure(rec, error) ==
    [rec EXCEPT !.pc = "done", !.error = error, !.response = 500]

\* getValidAccessToken, lines 173-191: which of its three paths a call takes
TokenPath ==
    IF RefreshInProgress THEN "attached"
    ELSE IF CachedTokenUsable(accessToken, tokenExpiresAt, now) THEN "cache"
    ELSE "refresh"

\* a finally block that resets the promise and leaves the flag set
RefreshFinallyKeepsFlag == [isRefreshingToken |-> TRUE, tokenRefreshPromise |-> NoPromise]

\* getValidAccessToken, lines 195-198: the finally block of the call that refreshed
RefreshFinally == [isRefreshingToken |-> FALSE, tokenRefreshPromise |-> NoPromise]

\* cashin after its token is known: the cash-in request is sent (lines 104-113)
SendCashin(rec, token) == [rec EXCEPT !.pc = "cashin", !.token = token]

\* -------------------------------------------------- POST /api/initiate-payment
\* lines 51-60: the request arrives; a missing phone number or amount answers 400,
\* otherwise the record is created
InitiateRequest(r, number, amount) ==
    /\ req[r].pc = "idle"
    /\ \A q \in Requests : q < r => req[q].pc # "idle"
    /\ IF number = EmptyPhone \/ amount = 0
       THEN req' = Settle(r, [req[r] EXCEPT !.pc = "done", !.number = number,
                                            !.amount = amount, !.response = 400])
       ELSE req' = Settle(r, [req[r] EXCEPT !.pc = "creating", !.number = number,
                                            !.amount = amount])
    /\ UNCHANGED <<now, tokenVars, cashinIssued, payments, sockets, paymentSockets,
                   hook, pushed, probe>>

\* lines 60-66 and cashin lines 81-97 with getValidAccessToken lines 172-191:
\* prisma.payment.create has answered; cashin validates, asks for a token and,
\* with a cached token, sends the cash-in request
InitiateCreated(r) ==
    /\ req[r].pc = "creating"
    /\ payments' = Append(payments, [amount |-> req[r].amount, status |-> "PENDING",
                                     paypackRef |-> NoRef])
    /\ LET rec == [req[r] EXCEPT !.paymentId = Len(payments) + 1]
           invalid == CashinValidation(rec.number, rec.amount)
       IN  IF invalid # NoError
           THEN /\ req' = Settle(r, InitiateFailure(rec, invalid))
                /\ UNCHANGED <<tokenVars, cashinIssued>>
           ELSE CASE TokenPath = "attached" ->
                       /\ req' = Settle(r, [rec EXCEPT !.pc = "await_token",
                                                       !.via = "attached",
                                                       !.cycle = tokenRefreshPromise])
                       /\ UNCHANGED <<tokenVars, cashinIssued>>
                  [] TokenPath = "cache" ->
                       /\ req' = Settle(r, SendCashin([rec EXCEPT !.via = "cache"],
                                                      accessToken))
                       /\ cashinIssued' = cashinIssued + 1
                       /\ UNCHANGED tokenVars
                  [] TokenPath = "refresh" ->
                       /\ isRefreshingToken' = TRUE
                       /\ tokenRefreshPromise' = authIssued + 1
                       /\ authInFlight' = authInFlight \cup {authIssued + 1}
                       /\ authIssued' = authIssued + 1
                       /\ req' = Settle(r, [rec EXCEPT !.pc = "await_token",
                                                       !.via = "refresh",
                                                       !.cycle = authIssued + 1])
                       /\ UNCHANGED <<accessToken, tokenExpiresAt, cashinIssued>>
    /\ UNCHANGED <<now, sockets, paymentSockets, hook, pushed, probe>>

\* callers of which only the one that started the refresh is resumed
AwaitingCycleOwnerOnly(cycle) ==
    {r \in Requests : /\ req[r].pc = "await_token" /\ req[r].cycle = cycle
                      /\ req[r].via = "refresh"}

\* getValidAccessToken lines 175 and 194: the callers awaiting the promise of a cycle
AwaitingCycle(cycle) ==
    {r \in Requests : req[r].pc = "await_token" /\ req[r].cycle = cycle}

\* authenticate lines 203-234, then getValidAccessToken lines 193-198 and cashin
\* lines 97-113 for every caller awaiting this refresh: the authorize call is answered
AuthResponse(cycle, outcome) ==
    /\ cycle \in authInFlight
    /\ LET s == AuthSettle(outcome)
           waiting == AwaitingCycle(cycle)
       IN  /\ accessToken' = s.accessToken
           /\ tokenExpiresAt' = s.tokenExpiresAt
           /\ isRefreshingToken' = RefreshFinally.isRefreshingToken
           /\ tokenRefreshPromise' = RefreshFinally.tokenRefreshPromise
           /\ authInFlight' = authInFlight \ {cycle}
           /\ req' = [r \in Requests |->
                        IF r \notin waiting THEN req[r]
                        ELSE IF s.error = NoError THEN SendCashin(req[r], s.value)
                        ELSE InitiateFailure(req[r], s.error)]
           /\ cashinIssued' = cashinIssued
                                + (IF s.error = NoError THEN Cardinality(waiting) ELSE 0)
    /\ UNCHANGED <<now, authIssued, payments, sockets, paymentSockets, hook, pushed, probe>>

\* the answers the gateway can give to a cash-in request
CashinOutcomes ==
    {[kind |-> "ok", ref |-> x] : x \in Refs}
    \cup {[kind |-> "http", status |-> s] : s \in HttpErrors}
    \cup {[kind |-> "transport"]}

\* cashin lines 114-122, handler lines 68-71: the cash-in call is answered
CashinResponse(r, outcome) ==
    /\ req[r].pc = "cashin"
    /\ IF outcome.kind = "ok"
       THEN req' = Settle(r, [req[r] EXCEPT !.pc = "updating", !.ref = outcome.ref])
       ELSE req' = Settle(r, InitiateFailure(req[r], HandleApiError(outcome)))
    /\ UNCHANGED <<now, tokenVars, cashinIssued, payments, sockets, paymentSockets,
                   hook, pushed, probe>>

\* a store without the unique index
RefTakenNever(ref) == FALSE

\* migration.sql line 13: the unique index on paypackRef
RefTaken(ref) == \E p \in DOMAIN payments : payments[p].paypackRef = ref

\* handler lines 68-71: the store applies the update of paypackRef, or rejects it
RefUpdate(r) ==
    /\ req[r].pc = "updating"
    /\ IF RefTaken(req[r].ref)
       THEN /\ req' = Settle(r, InitiateFailure(req[r], ApiError(500, "P2002")))
            /\ UNCHANGED payments
       ELSE /\ payments' = [payments EXCEPT ![req[r].paymentId].paypackRef = req[r].ref]
            /\ req' = Settle(r, [req[r] EXCEPT !.pc = "committed"])
    /\ UNCHANGED <<now, tokenVars, cashinIssued, sockets, paymentSockets, hook, pushed, probe>>

\* handler line 76: the payment id is returned
InitiateRespond(r) ==
    /\ req[r].pc = "committed"
    /\ req' = Settle(r, [req[r] EXCEPT !.pc = "done", !.response = 200])
    /\ UNCHANGED <<now, tokenVars, cashinIssued, payments, sockets, paymentSockets,
                   hook, pushed, probe>>

\* the wall clock advances
Tick ==
    /\ now + TimeStep <= MaxNow
    /\ now' = now + TimeStep
    /\ UNCHANGED <<tokenVars, cashinIssued, req, payments, sockets, paymentSockets,
                   hook, pushed, probe>>

\* ------------------------------------------------------ the socket registry
\* Map.get
MapGet(m, k) ==
    IF \E i \in 1..Len(m) : m[i].paymentId = k
    THEN m[CHOOSE i \in 1..Len(m) : m[i].paymentId = k].socketId
    ELSE NoSocket

\* a set that keeps the value a known key already has
MapSetKeepFirst(m, k, v) ==
    IF \E i \in 1..Len(m) : m[i].paymentId = k
    THEN m
    ELSE Append(m, [paymentId |-> k, socketId |-> v])

\* Map.set: a known key keeps its place, a new key goes last
MapSet(m, k, v) ==
    IF \E i \in 1..Len(m) : m[i].paymentId = k
    THEN [i \in 1..Len(m) |-> IF m[i].paymentId = k THEN [m[i] EXCEPT !.socketId = v] ELSE m[i]]
    ELSE Append(m, [paymentId |-> k, socketId |-> v])

\* a delete that removes nothing
MapDeleteNothing(m, k) == m

\* a delete that clears the whole map
MapDeleteAll(m, k) == <<>>

\* Map.delete
MapDelete(m, k) == SelectSeq(m, LAMBDA e : e.paymentId # k)

\* lines 39-44: the entries left when socket `sid` disconnects
AfterDisconnect(m, sid) ==
    IF \E i \in 1..Len(m) : m[i].socketId = sid
    THEN LET first == CHOOSE i \in 1..Len(m) :
                         /\ m[i].socketId = sid
                         /\ \A j \in 1..(i - 1) : m[j].socketId # sid
         IN  MapDelete(m, m[first].paymentId)
    ELSE m

\* io.on("connection"): a client connects
Connect(s) ==
    /\ sockets[s] = "new"
    /\ \A t \in Sockets : t < s => sockets[t] # "new"
    /\ sockets' = [sockets EXCEPT ![s] = "connected"]
    /\ UNCHANGED <<now, tokenVars, cashinIssued, req, payments, paymentSockets, hook, pushed, probe>>

\* the payment ids a client has been given (handler line 76, App.tsx lines 68-74)
KnownPayments == {req[r].paymentId : r \in {q \in Requests : req[q].response = 200}}

\* lines 33-36: socket.on("registerPayment")
RegisterPayment(s, paymentId) ==
    /\ sockets[s] = "connected"
    /\ paymentId \in KnownPayments
    /\ paymentSockets' = MapSet(paymentSockets, paymentId, s)
    /\ UNCHANGED <<now, tokenVars, cashinIssued, req, payments, sockets, hook, pushed, probe>>

\* lines 37-45: socket.on("disconnect")
Disconnect(s) ==
    /\ sockets[s] = "connected"
    /\ sockets' = [sockets EXCEPT ![s] = "disconnected"]
    /\ paymentSockets' = AfterDisconnect(paymentSockets, s)
    /\ UNCHANGED <<now, tokenVars, cashinIssued, req, payments, hook, pushed, probe>>

\* ------------------------------------------------------- POST /api/webhook
\* a mapping that leaves the payment pending on an unrecognised status
NewStatusKeepsPending(upstream) ==
    IF upstream = "successful" THEN "SUCCESSFUL"
    ELSE IF upstream = "pending" THEN "FAILED" ELSE "PENDING"

\* a mapping that knows "failed" only and takes every other status for success
NewStatusFailedOnly(upstream) == IF upstream = "failed" THEN "FAILED" ELSE "SUCCESSFUL"

\* line 109
NewStatus(upstream) == IF upstream = "successful" THEN "SUCCESSFUL" ELSE "FAILED"

\* lines 91-96 and 127-130: the answer to a request whose signature check did not pass
SignatureFailureResponse(verdict) == IF verdict.thrown # NoError THEN 500 ELSE 401

\* lines 87-103: the request arrives, its signature is checked, the payment is looked up
WebhookRequest(w, signature, rawBody) ==
    /\ hook[w].pc = "idle"
    /\ \A v \in Hooks : v < w => hook[v].pc # "idle"
    /\ LET verdict == VerifyWebhookSignature(signature, rawBody)
           data == ParseBody(rawBody)
           genuine == signature = Header(Base64(Hmac(WebhookSecret, rawBody)))
           rec == [hook[w] EXCEPT !.genuine = genuine, !.error = verdict.thrown]
       IN  IF verdict.returns
           THEN hook' = [hook EXCEPT ![w] = [rec EXCEPT !.pc = "finding", !.ref = data.ref,
                                                        !.status = data.status]]
           ELSE hook' = [hook EXCEPT ![w] =
                           [rec EXCEPT !.pc = "done",
                                       !.response = SignatureFailureResponse(verdict)]]
    /\ UNCHANGED <<now, tokenVars, cashinIssued, req, payments, sockets, paymentSockets,
                   pushed, probe>>

\* a lookup whose filter is dropped
FindByRefUnfiltered(ref) == DOMAIN payments

\* lines 101-103: prisma.payment.findFirst({ where: { paypackRef: data.ref } })
FindByRef(ref) == {p \in DOMAIN payments : payments[p].paypackRef = ref}

\* lines 101-113: findFirst answers; unknown reference 404, otherwise the update is sent
WebhookFound(w) ==
    /\ hook[w].pc = "finding"
    /\ LET found == FindByRef(hook[w].ref)
       IN  IF found = {}
           THEN hook' = [hook EXCEPT ![w].pc = "done", ![w].response = 404]
           ELSE hook' = [hook EXCEPT ![w].pc = "updating",
                                     ![w].paymentId = CHOOSE p \in found : TRUE,
                                     ![w].newStatus = NewStatus(hook[w].status)]
    /\ UNCHANGED <<now, tokenVars, cashinIssued, req, payments, sockets, paymentSockets,
                   pushed, probe>>

\* lines 110-113: the store applies the status update
WebhookStore(w) ==
    /\ hook[w].pc = "updating"
    /\ payments' = [payments EXCEPT ![hook[w].paymentId].status = hook[w].newStatus]
    /\ hook' = [hook EXCEPT ![w].pc = "stored"]
    /\ UNCHANGED <<now, tokenVars, cashinIssued, req, sockets, paymentSockets, pushed, probe>>

\* lines 114-126: the update has answered; notify the registered socket and clean up
WebhookNotify(w) ==
    /\ hook[w].pc = "stored"
    /\ LET socketId == MapGet(paymentSockets, hook[w].paymentId)
       IN  IF socketId # NoSocket
           THEN /\ pushed' = Append(pushed, [socketId |-> socketId,
                                             paymentId |-> hook[w].paymentId,
                                             status |-> hook[w].newStatus,
                                             hook |-> w,
                                             received |-> sockets[socketId] = "connected"])
                /\ paymentSockets' = MapDelete(paymentSockets, hook[w].paymentId)
           ELSE UNCHANGED <<pushed, paymentSockets>>
    /\ hook' = [hook EXCEPT ![w].pc = "done", ![w].response = 200]
    /\ UNCHANGED <<now, tokenVars, cashinIssued, req, payments, sockets, probe>>

\* ------------------------------------------------------- specifications
\* signature headers sent with a webhook request: none, the right one, wrong ones
HookSignatures(rawBody) ==
    LET good == Base64(Hmac(WebhookSecret, rawBody))
    IN  {NoHeader, Header(good),
         Header(Replace(good, 1, IF good[1] = 65 THEN 66 ELSE 65)),
         Header(SubSeq(good, 1, Len(good) - 1))}

\* the gateway answers every call with success
GoodAuthOutcomes(cycle) ==
    {o \in AuthOutcomes(cycle) : o.kind = "ok" /\ o.access # NoToken}
GoodCashinOutcomes == {o \in CashinOutcomes : o.kind = "ok"}

\* The token manager and the gateway client under MaxReq initiate requests with any
\* input, any gateway answer and a moving clock.
NextToken ==
    \/ \E r \in Requests, number \in Phones, amount \in Amounts :
          InitiateRequest(r, number, amount)
    \/ \E r \in Requests : InitiateCreated(r)
    \/ \E cycle \in 1..MaxReq : \E outcome \in AuthOutcomes(cycle) :
          AuthResponse(cycle, outcome)
    \/ \E r \in Requests : \E outcome \in CashinOutcomes : CashinResponse(r, outcome)
    \/ \E r \in Requests : RefUpdate(r)
    \/ \E r \in Requests : InitiateRespond(r)
    \/ Tick

SpecToken == Init /\ [][NextToken]_vars

\* The server around one payment: a valid initiate request that the gateway accepts,
\* one client socket, and up to MaxHooks webhook requests with any body and signature,
\* all interleaved.
Next ==
    \/ InitiateRequest(1, ValidPhone, MinAmount)
    \/ InitiateCreated(1)
    \/ \E outcome \in GoodAuthOutcomes(1) : AuthResponse(1, outcome)
    \/ \E outcome \in GoodCashinOutcomes : CashinResponse(1, outcome)
    \/ RefUpdate(1)
    \/ InitiateRespond(1)
    \/ Connect(1)
    \/ RegisterPayment(1, 1)
    \/ Disconnect(1)
    \/ \E w \in Hooks : \E rawBody \in RawBodies : \E signature \in HookSignatures(rawBody) :
          WebhookRequest(w, signature, rawBody)
    \/ \E w \in Hooks : WebhookFound(w)
    \/ \E w \in Hooks : WebhookStore(w)
    \/ \E w \in Hooks : WebhookNotify(w)

Spec == Init /\ [][Next]_vars

\* the client's one registration of a payment: App.tsx emits registerPayment once, after
\* the initiate response, so it happens while the payment has no entry and no delivery
RegisterOnce(s, paymentId) ==
    /\ MapGet(paymentSockets, paymentId) = NoSocket
    /\ \A i \in 1..Len(pushed) : pushed[i].paymentId # paymentId
    /\ RegisterPayment(s, paymentId)

\* The server around one payment that its client registers once, with up to MaxHooks
\* webhook requests handled concurrently.
NextSingleRegistration ==
    \/ InitiateRequest(1, ValidPhone, MinAmount)
    \/ InitiateCreated(1)
    \/ \E outcome \in GoodAuthOutcomes(1) : AuthResponse(1, outcome)
    \/ \E outcome \in GoodCashinOutcomes : CashinResponse(1, outcome)
    \/ RefUpdate(1)
    \/ InitiateRespond(1)
    \/ Connect(1)
    \/ RegisterOnce(1, 1)
    \/ Disconnect(1)
    \/ \E w \in Hooks : \E rawBody \in RawBodies : \E signature \in HookSignatures(rawBody) :
          WebhookRequest(w, signature, rawBody)
    \/ \E w \in Hooks : WebhookFound(w)
    \/ \E w \in Hooks : WebhookStore(w)
    \/ \E w \in Hooks : WebhookNotify(w)

SpecSingleRegistration == Init /\ [][NextSingleRegistration]_vars

\* webhook bodies with every kind of upstream status: "successful", "failed" and one
\* that is neither ("rejected")
StatusBodies == {<<ref, st>> : ref \in 1..(MaxRefs + 1), st \in 1..3}

\* webhook w arrives when every earlier webhook has been answered
WebhookRequestInTurn(w, signature, rawBody) ==
    /\ \A v \in Hooks : hook[v].pc = (IF v < w THEN "done" ELSE "idle")
    /\ WebhookRequest(w, signature, rawBody)

\* The same server with its webhook requests handled one after another, each with any
\* upstream status.
NextSequence ==
    \/ InitiateRequest(1, ValidPhone, MinAmount)
    \/ InitiateCreated(1)
    \/ \E outcome \in GoodAuthOutcomes(1) : AuthResponse(1, outcome)
    \/ \E outcome \in GoodCashinOutcomes : CashinResponse(1, outcome)
    \/ RefUpdate(1)
    \/ InitiateRespond(1)
    \/ Connect(1)
    \/ RegisterOnce(1, 1)
    \/ Disconnect(1)
    \/ \E w \in Hooks : \E rawBody \in StatusBodies :
          \E signature \in HookSignatures(rawBody) :
             WebhookRequestInTurn(w, signature, rawBody)
    \/ \E w \in Hooks : WebhookFound(w)
    \/ \E w \in Hooks : WebhookStore(w)
    \/ \E w \in Hooks : WebhookNotify(w)

SpecSequence == Init /\ [][NextSequence]_vars

\* One initiate request with any input and any gateway answer, next to up to MaxHooks
\* webhook requests: the initiate request may fail at every point of its handler.
NextFailure ==
    \/ \E number \in Phones, amount \in Amounts : InitiateRequest(1, number, amount)
    \/ InitiateCreated(1)
    \/ \E outcome \in AuthOutcomes(1) : AuthResponse(1, outcome)
    \/ \E outcome \in CashinOutcomes : CashinResponse(1, outcome)
    \/ RefUpdate(1)
    \/ InitiateRespond(1)
    \/ \E w \in Hooks : \E rawBody \in RawBodies : \E signature \in HookSignatures(rawBody) :
          WebhookRequest(w, signature, rawBody)
    \/ \E w \in Hooks : WebhookFound(w)
    \/ \E w \in Hooks : WebhookStore(w)
    \/ \E w \in Hooks : WebhookNotify(w)

SpecFailure == Init /\ [][NextFailure]_vars

\* One accepted payment that any of MaxSockets client sockets may register, again and
\* again, next to one validly signed webhook request.
NextRegistry ==
    \/ InitiateRequest(1, ValidPhone, MinAmount)
    \/ InitiateCreated(1)
    \/ \E outcome \in GoodAuthOutcomes(1) : AuthResponse(1, outcome)
    \/ \E outcome \in GoodCashinOutcomes : CashinResponse(1, outcome)
    \/ RefUpdate(1)
    \/ InitiateRespond(1)
    \/ \E s \in Sockets : Connect(s)
    \/ \E s \in Sockets : RegisterPayment(s, 1)
    \/ \E s \in Sockets : Disconnect(s)
    \/ \E rawBody \in RawBodies :
          WebhookRequest(1, Header(Base64(Hmac(WebhookSecret, rawBody))), rawBody)
    \/ WebhookFound(1)
    \/ WebhookStore(1)
    \/ WebhookNotify(1)

SpecRegistry == Init /\ [][NextRegistry]_vars

\* MaxReq payments that the gateway accepts and one client socket that registers any of
\* them and disconnects, next to one validly signed webhook request.
NextDisconnect ==
    \/ \E r \in Requests : InitiateRequest(r, ValidPhone, MinAmount)
    \/ \E r \in Requests : InitiateCreated(r)
    \/ \E cycle \in 1..MaxReq : \E outcome \in GoodAuthOutcomes(cycle) :
          AuthResponse(cycle, outcome)
    \/ \E r \in Requests : \E outcome \in GoodCashinOutcomes : CashinResponse(r, outcome)
    \/ \E r \in Requests : RefUpdate(r)
    \/ \E r \in Requests : InitiateRespond(r)
    \/ Connect(1)
    \/ \E p \in 1..MaxReq : RegisterPayment(1, p)
    \/ Disconnect(1)
    \/ \E rawBody \in RawBodies :
          WebhookRequest(1, Header(Base64(Hmac(WebhookSecret, rawBody))), rawBody)
    \/ WebhookFound(1)
    \/ WebhookStore(1)
    \/ WebhookNotify(1)

SpecDisconnect == Init /\ [][NextDisconnect]_vars

\* Two payments with valid input whose cash-in the gateway accepts or refuses, one
\* client socket that registers any of them, and one webhook request with any body and
\* signature: payments with and without an external reference side by side.
NextFrame ==
    \/ \E r \in {1, 2} : InitiateRequest(r, ValidPhone, MinAmount)
    \/ \E r \in {1, 2} : InitiateCreated(r)
    \/ \E cycle \in {1, 2} : \E outcome \in GoodAuthOutcomes(cycle) :
          AuthResponse(cycle, outcome)
    \/ \E r \in {1, 2} : \E outcome \in CashinOutcomes : CashinResponse(r, outcome)
    \/ \E r \in {1, 2} : RefUpdate(r)
    \/ \E r \in {1, 2} : InitiateRespond(r)
    \/ Connect(1)
    \/ \E p \in {1, 2} : RegisterPayment(1, p)
    \/ \E rawBody \in RawBodies : \E signature \in HookSignatures(rawBody) :
          WebhookRequest(1, signature, rawBody)
    \/ WebhookFound(1)
    \/ WebhookStore(1)
    \/ WebhookNotify(1)

SpecFrame == Init /\ [][NextFrame]_vars

\* The token manager under MaxReq valid initiate requests, with every authorize call
\* answered in the end: the client's timeout (constructor, line 77) fails a call that
\* the gateway leaves unanswered.
NextRefresh ==
    \/ \E r \in Requests : InitiateRequest(r, ValidPhone, MinAmount)
    \/ \E r \in Requests : InitiateCreated(r)
    \/ \E cycle \in 1..MaxReq : \E outcome \in AuthOutcomes(cycle) :
          AuthResponse(cycle, outcome)
    \/ \E r \in Requests : \E outcome \in GoodCashinOutcomes : CashinResponse(r, outcome)
    \/ \E r \in Requests : RefUpdate(r)
    \/ \E r \in Requests : InitiateRespond(r)
    \/ Tick

AuthorizeAnswered == \E cycle \in 1..MaxReq : \E outcome \in AuthOutcomes(cycle) :
                        AuthResponse(cycle, outcome)

SpecRefresh == Init /\ [][NextRefresh]_vars /\ WF_vars(AuthorizeAnswered)

\* verifyWebhookSignature on its own: any body with any of the signature headers
InitVerify ==
    /\ now = 0
    /\ accessToken = NoToken
    /\ tokenExpiresAt = NoDate
    /\ isRefreshingToken = FALSE
    /\ tokenRefreshPromise = NoPromise
    /\ authInFlight = {}
    /\ authIssued = 0
    /\ cashinIssued = 0
    /\ req = [r \in Requests |-> IdleReq]
    /\ payments = <<>>
    /\ sockets = [s \in Sockets |-> "new"]
    /\ paymentSockets = <<>>
    /\ hook = [w \in Hooks |-> IdleHook]
    /\ pushed = <<>>
    /\ probe \in {[NoProbe EXCEPT !.signature = sb[1], !.rawBody = sb[2]] :
                    sb \in UNION {Signatures(b) \X {b} : b \in RawBodies}}

VerifyCall ==
    /\ ~probe.checked
    /\ probe' = [probe EXCEPT !.checked = TRUE,
                              !.verdict = VerifyWebhookSignature(probe.signature,
                                                                 probe.rawBody)]
    /\ UNCHANGED <<now, tokenVars, cashinIssued, req, payments, sockets, paymentSockets,
                   hook, pushed>>

SpecVerify == InitVerify /\ [][VerifyCall]_vars

\* ================================================================== claims
PushesFor(p) == {i \in 1..Len(pushed) : pushed[i].paymentId = p}
PushesBy(w) == {i \in 1..Len(pushed) : pushed[i].hook = w}
TokenSeekers == {r \in Requests : req[r].via \in {"refresh", "attached"}}
Awaiting == {r \in Requests : req[r].pc = "await_token"}
\* "07 followed by exactly 8 digits"
WellFormedPhone(number) ==
    /\ Len(number) = 10
    /\ SubSeq(number, 1, 2) = <<"0", "7">>
    /\ \A i \in 1..8 : number[2 + i] \in Digits
\* request r leaves the store's create and enters cashin in this step
EntersCashin(r) == req[r].pc = "creating" /\ req'[r].pc # "creating"

\* C1: single-flight refresh. At most one authenticate request is in flight; only
\* the caller that starts a refresh cycle sends one (callers that arrive meanwhile
\* wait on that same cycle); and all callers of one cycle end with the same token,
\* or all with the same failure.
C1_SingleFlight ==
    /\ Cardinality(authInFlight) <= 1
    /\ authIssued = Cardinality({r \in Requests : req[r].via = "refresh"})
    /\ \A r \in Awaiting : req[r].cycle \in authInFlight
    /\ \A r1 \in TokenSeekers \ Awaiting, r2 \in TokenSeekers \ Awaiting :
          req[r1].cycle = req[r2].cycle =>
             /\ req[r1].token = req[r2].token
             /\ req[r1].token = NoToken => req[r1].error = req[r2].error

C1_Witness ==
    \E r1 \in Requests, r2 \in Requests :
       /\ req[r1].via = "refresh" /\ req[r2].via = "attached"
       /\ req[r1].cycle = req[r2].cycle
       /\ req[r1].token # NoToken /\ req[r1].token = req[r2].token
       /\ authIssued = 1

\* C2 as stated: once a validly signed webhook for an accepted payment has been
\* handled and the caller has registered a channel, exactly one event has been pushed
\* for that payment, whatever the order of webhook and registration.
C2_ExactlyOnceAnyOrder ==
    \A w \in Hooks : \A p \in DOMAIN payments :
       (/\ hook[w].pc = "done" /\ hook[w].genuine
        /\ payments[p].paypackRef = hook[w].ref
        /\ (MapGet(paymentSockets, p) # NoSocket \/ PushesFor(p) # {}))
       => Cardinality(PushesFor(p)) = 1

\* C2 amended: a webhook handler pushes exactly one event, to the socket registered
\* for its payment and with the status mapped from the webhook, when that registration
\* is present as the handler reaches its notification step, and the registration is
\* then consumed; a handler that ends any other way (rejected, reference not yet
\* stored, no registration yet) pushes nothing.
C2_DeliveredWhenRegistered ==
    [][\A w \in Hooks :
          (hook[w].pc # "done" /\ hook'[w].pc = "done") =>
             LET p == hook[w].paymentId
                 s == MapGet(paymentSockets, p)
             IN  IF hook[w].pc = "stored" /\ s # NoSocket
                 THEN /\ Len(pushed') = Len(pushed) + 1
                      /\ SubSeq(pushed', 1, Len(pushed)) = pushed
                      /\ pushed'[Len(pushed')].socketId = s
                      /\ pushed'[Len(pushed')].paymentId = p
                      /\ pushed'[Len(pushed')].status =
                            (IF hook[w].status = "successful" THEN "SUCCESSFUL" ELSE "FAILED")
                      /\ MapGet(paymentSockets', p) = NoSocket
                 ELSE pushed' = pushed]_vars

C2_Witness ==
    \E w \in Hooks :
       /\ hook[w].pc = "done" /\ hook[w].response = 200
       /\ Cardinality(PushesBy(w)) = 1
       /\ \A i \in PushesBy(w) : pushed[i].received /\ pushed[i].paymentId = hook[w].paymentId

\* C3 as stated: a payment that is SUCCESSFUL or FAILED keeps that status.
C3_TerminalIsFinal ==
    [][\A p \in DOMAIN payments :
          payments[p].status # "PENDING" => payments'[p].status = payments[p].status]_vars

\* C4: verifyWebhookSignature returns true exactly for the base64 HMAC of the raw
\* body under the webhook secret; for a missing header and every other value it
\* throws.
C4_VerifyIffGenuine ==
    probe.checked =>
       /\ probe.verdict.returns <=>
             (/\ probe.signature.present
              /\ probe.signature.value = Base64(Hmac(WebhookSecret, probe.rawBody)))
       /\ ~probe.verdict.returns <=> probe.verdict.thrown # NoError

C4_Witness ==
    /\ probe.checked /\ probe.verdict.returns
    /\ probe.signature.present /\ Len(probe.signature.value) > 0

\* C5: a webhook request whose signature is missing or wrong ends at once with a
\* rejection and changes no payment, pushes no event and removes no registration.
C5_RejectedWithoutEffect ==
    [][\A w \in Hooks :
          (hook'[w] # hook[w] /\ ~hook'[w].genuine) =>
             /\ hook[w].pc = "idle" /\ hook'[w].pc = "done"
             /\ hook'[w].response >= 400
             /\ UNCHANGED <<payments, pushed, paymentSockets>>]_vars

C5_Witness ==
    \E w \in Hooks :
       /\ hook[w].pc = "done" /\ ~hook[w].genuine /\ hook[w].response >= 400
       /\ \E p \in DOMAIN payments :
             /\ payments[p].paypackRef # NoRef /\ payments[p].status = "PENDING"
             /\ MapGet(paymentSockets, p) # NoSocket

\* C6 as stated: a webhook request with a missing or wrong signature is answered
\* 401 or 403.
C6_UnauthorizedResponse ==
    \A w \in Hooks :
       (hook[w].pc = "done" /\ ~hook[w].genuine) => hook[w].response \in {401, 403}

\* C7: with an amount below the minimum or a phone number that is not 07 and 8
\* digits, cashin throws a validation error and sends no authenticate and no cash-in
\* request and leaves the token cache alone.
C7_ValidationBeforeNetwork ==
    [][\A r \in Requests :
          (/\ EntersCashin(r)
           /\ (req[r].amount < 100 \/ ~WellFormedPhone(req[r].number)))
          => /\ req'[r].pc = "done"
             /\ req'[r].error.statusCode = 400
             /\ req'[r].error.code \in {"INVALID_AMOUNT", "INVALID_PHONE"}
             /\ UNCHANGED <<tokenVars, cashinIssued>>]_vars

C7_Witness ==
    /\ \E r \in Requests : req[r].error.code = "INVALID_AMOUNT"
    /\ \E r \in Requests : req[r].error.code = "INVALID_PHONE" /\ Len(req[r].number) = 11
    /\ authIssued = 0 /\ cashinIssued = 0

\* C8 as stated: an initiate request that fails on a validation error is answered
\* with a 4xx status.
C8_ValidationIsClientError ==
    \A r \in Requests :
       (req[r].pc = "done" /\ req[r].error.code \in {"INVALID_AMOUNT", "INVALID_PHONE"})
       => req[r].response \in 400..499

\* C9: a call that finds a cached token with now before its expiry minus 60 s gets
\* that token, sends no authenticate request and waits for nobody.
C9_CachedTokenReturned ==
    [][\A r \in Requests :
          (/\ EntersCashin(r)
           /\ req[r].amount >= 100 /\ WellFormedPhone(req[r].number)
           /\ accessToken # NoToken /\ tokenExpiresAt # NoDate
           /\ now < tokenExpiresAt - 60 * 1000)
          => /\ req'[r].pc = "cashin"
             /\ req'[r].via = "cache"
             /\ req'[r].token = accessToken
             /\ UNCHANGED tokenVars]_vars

C9_Witness ==
    \E r \in Requests :
       /\ req[r].via = "cache" /\ req[r].token # NoToken
       /\ req[r].token = accessToken /\ authIssued = 1

\* C10: when the authenticate call fails, token and expiry are cleared, every caller
\* waiting on the cycle fails with the same error, no further authenticate request is
\* sent by the token manager, and the next call starts a new refresh.
C10_AuthFailureClearsAndPropagates ==
    [][/\ (\E r \in Awaiting : req'[r].pc = "done") =>
             /\ accessToken' = NoToken /\ tokenExpiresAt' = NoDate
             /\ authIssued' = authIssued /\ authInFlight' = {}
             /\ ~isRefreshingToken' /\ tokenRefreshPromise' = NoPromise
             /\ cashinIssued' = cashinIssued
             /\ \A q \in Awaiting, q2 \in Awaiting :
                   /\ req'[q].pc = "done" /\ req'[q].token = NoToken
                   /\ req'[q].error # NoError /\ req'[q].error = req'[q2].error
       /\ \A r \in Requests :
             (/\ EntersCashin(r)
              /\ req[r].amount >= 100 /\ WellFormedPhone(req[r].number)
              /\ accessToken = NoToken /\ authInFlight = {})
             => /\ req'[r].via = "refresh"
                /\ authIssued' = authIssued + 1
                /\ authInFlight' = {authIssued + 1}]_vars

C10_Witness ==
    /\ \E r1 \in Requests, r2 \in Requests :
          /\ r1 # r2
          /\ req[r1].via = "refresh" /\ req[r2].via = "attached"
          /\ req[r1].cycle = req[r2].cycle
          /\ req[r1].pc = "done" /\ req[r2].pc = "done"
          /\ req[r1].token = NoToken /\ req[r1].error = req[r2].error
          /\ req[r1].error.code = "UNKNOWN_PAYPACK_ERROR"
    /\ accessToken = NoToken /\ tokenExpiresAt = NoDate

\* the local status a webhook status stands for
MappedStatus(upstream) == IF upstream = "successful" THEN "SUCCESSFUL" ELSE "FAILED"
Stores(w) == hook[w].pc = "updating" /\ hook'[w].pc = "stored"
Notifies(w) == hook[w].pc = "stored" /\ hook'[w].pc = "done"

\* C11 as stated: whenever an event {status: S} is pushed for a payment, the stored
\* status of that payment is S at that moment, under every interleaving of webhook
\* handlers.
C11_StoredBeforePushed ==
    [][Len(pushed') > Len(pushed) =>
          payments[pushed'[Len(pushed')].paymentId].status
             = pushed'[Len(pushed')].status]_vars

\* C14: a valid webhook for a payment without a registration still stores the mapped
\* terminal status, is answered 200 without an error, and pushes nothing.
C14_UnregisteredStillStored ==
    [][\A w \in Hooks :
          MapGet(paymentSockets, hook[w].paymentId) = NoSocket =>
             /\ Stores(w) =>
                   payments'[hook[w].paymentId].status = MappedStatus(hook[w].status)
             /\ Notifies(w) =>
                   /\ hook'[w].response = 200 /\ hook'[w].error = NoError
                   /\ payments[hook[w].paymentId].status \in {"SUCCESSFUL", "FAILED"}
                   /\ UNCHANGED <<pushed, paymentSockets, payments>>]_vars

C14_Witness ==
    \E w \in Hooks :
       /\ hook[w].pc = "done" /\ hook[w].response = 200 /\ hook[w].status = "failed"
       /\ pushed = <<>> /\ paymentSockets = <<>>
       /\ payments[hook[w].paymentId].status = "FAILED"

\* C15: a validly signed webhook whose reference no stored payment holds is answered
\* 404 and changes no payment, pushes nothing and leaves the registry as it is.
C15_UnknownReferenceNotFound ==
    [][\A w \in Hooks :
          (/\ hook[w].pc = "finding" /\ hook'[w] # hook[w]
           /\ \A p \in DOMAIN payments : payments[p].paypackRef # hook[w].ref)
          => /\ hook'[w].pc = "done" /\ hook'[w].response = 404
             /\ hook'[w].paymentId = NoPayment
             /\ UNCHANGED <<payments, pushed, paymentSockets>>]_vars

C15_Witness ==
    \E w \in Hooks :
       /\ hook[w].pc = "done" /\ hook[w].genuine /\ hook[w].response = 404
       /\ \E p \in DOMAIN payments :
             /\ payments[p].paypackRef # NoRef /\ payments[p].paypackRef # hook[w].ref
             /\ payments[p].status = "PENDING"
             /\ MapGet(paymentSockets, p) # NoSocket
       /\ pushed = <<>>

\* C12: a valid webhook handled a second time, right after the first, with the same
\* status for the same reference: its store step leaves every payment as it was, and
\* its notification step pushes nothing when the first one consumed the registration.
C12_SecondWebhookIdempotent ==
    [][\A w \in Hooks \ {1} :
          (/\ hook[w - 1].pc = "done" /\ hook[w - 1].response = 200
           /\ hook[w].paymentId = hook[w - 1].paymentId
           /\ hook[w].status = hook[w - 1].status)
          => /\ Stores(w) => payments' = payments
             /\ (Notifies(w) /\ PushesBy(w - 1) # {}) =>
                   /\ pushed' = pushed
                   /\ hook'[w].response = 200
                   /\ payments' = payments]_vars

C12_Witness ==
    \E w \in Hooks \ {1} :
       /\ hook[w].pc = "done" /\ hook[w].response = 200
       /\ hook[w - 1].pc = "done" /\ hook[w - 1].response = 200
       /\ hook[w].paymentId = hook[w - 1].paymentId
       /\ hook[w].status = hook[w - 1].status
       /\ PushesBy(w - 1) # {} /\ PushesBy(w) = {}
       /\ payments[hook[w].paymentId].status = MappedStatus(hook[w].status)

\* C13: with the payment registered once, webhooks handled concurrently for its
\* reference push at most one notification for it.
C13_AtMostOneNotification ==
    \A p \in DOMAIN payments : Cardinality(PushesFor(p)) <= 1

C13_Witness ==
    \E w1 \in Hooks, w2 \in Hooks :
       /\ w1 # w2
       /\ hook[w1].pc = "done" /\ hook[w1].response = 200
       /\ hook[w2].pc = "done" /\ hook[w2].response = 200
       /\ hook[w1].paymentId = hook[w2].paymentId
       /\ hook[w1].status = "successful" /\ hook[w2].status = "failed"
       /\ PushesBy(w1) # {} /\ PushesBy(w2) = {}
       /\ payments[hook[w1].paymentId].status = "SUCCESSFUL"

\* C16: the stored status becomes SUCCESSFUL exactly when the webhook status is
\* "successful" and FAILED for every other status ("failed", "rejected"), and the
\* pushed event carries that same mapped status.
C16_StatusMapping ==
    [][\A w \in Hooks :
          /\ Stores(w) =>
                /\ payments'[hook[w].paymentId].status = "SUCCESSFUL"
                      <=> hook[w].status = "successful"
                /\ payments'[hook[w].paymentId].status = "FAILED"
                      <=> hook[w].status # "successful"
          /\ (Notifies(w) /\ pushed' # pushed) =>
                /\ pushed'[Len(pushed')].hook = w
                /\ pushed'[Len(pushed')].status = "SUCCESSFUL"
                      <=> hook[w].status = "successful"
                /\ pushed'[Len(pushed')].status = "FAILED"
                      <=> hook[w].status # "successful"]_vars

C16_Witness ==
    \E w \in Hooks :
       /\ hook[w].pc = "done" /\ hook[w].response = 200 /\ hook[w].status = "rejected"
       /\ \E i \in PushesBy(w) : pushed[i].status = "FAILED" /\ pushed[i].received
       /\ payments[hook[w].paymentId].status = "FAILED"

\* C17: a payment's external reference, once set, never changes (so it is set at most
\* once), and no two payments hold the same non-null external reference.
C17_ReferenceSetOnceAndUnique ==
    [][/\ \A p \in DOMAIN payments :
             payments[p].paypackRef # NoRef =>
                /\ p \in DOMAIN payments'
                /\ payments'[p].paypackRef = payments[p].paypackRef
       /\ \A p \in DOMAIN payments', q \in DOMAIN payments' :
             (p # q /\ payments'[p].paypackRef # NoRef) =>
                payments'[p].paypackRef # payments'[q].paypackRef]_vars

C17_Witness ==
    \E r1 \in Requests, r2 \in Requests :
       /\ req[r1].response = 200
       /\ payments[req[r1].paymentId].paypackRef = req[r1].ref
       /\ req[r2].pc = "done" /\ req[r2].ref = req[r1].ref /\ r2 # r1
       /\ req[r2].error.code = "P2002"
       /\ payments[req[r2].paymentId].paypackRef = NoRef

C20_ReturnedTokenFresh ==
    [][\A r \in Requests :
          (req[r].pc # "cashin" /\ req'[r].pc = "cashin") =>
             now < tokenExpiresAt' - SkewSeconds * 1000]_vars

\* C19: a register call of a connected socket leaves that socket as the payment's one
\* registration, whatever registration the payment had (the last writer wins), a
\* webhook that resolves the payment pushes its one event to the socket registered
\* last and to no other, the registry then holds no entry for the payment, and only a
\* register call gives it one again.
C19_LastWriterWinsAndConsumed ==
    [][\A p \in DOMAIN payments :
          /\ \A s \in Sockets :
                (sockets[s] = "connected" /\ p \in KnownPayments) =>
                   MapGet(MapSet(paymentSockets, p, s), p) = s
          /\ \A s \in Sockets :
                RegisterPayment(s, p) =>
                   /\ MapGet(paymentSockets', p) = s
                   /\ Cardinality({i \in 1..Len(paymentSockets') :
                                     paymentSockets'[i].paymentId = p}) = 1
          /\ \A w \in Hooks :
                (/\ Notifies(w) /\ hook[w].paymentId = p
                 /\ MapGet(paymentSockets, p) # NoSocket) =>
                   /\ Len(pushed') = Len(pushed) + 1
                   /\ SubSeq(pushed', 1, Len(pushed)) = pushed
                   /\ pushed'[Len(pushed')].socketId = MapGet(paymentSockets, p)
                   /\ pushed'[Len(pushed')].paymentId = p
                   /\ \A i \in 1..Len(paymentSockets') : paymentSockets'[i].paymentId # p
          /\ (MapGet(paymentSockets, p) = NoSocket /\ MapGet(paymentSockets', p) # NoSocket) =>
                \E s \in Sockets : RegisterPayment(s, p)]_vars

C19_Witness ==
    \E w \in Hooks, c1 \in Sockets, c2 \in Sockets :
       /\ c1 # c2 /\ sockets[c1] = "connected" /\ sockets[c2] = "connected"
       /\ hook[w].pc = "done" /\ hook[w].response = 200
       /\ Len(pushed) = 1 /\ pushed[1].hook = w
       /\ pushed[1].socketId = c2 /\ pushed[1].received
       /\ MapGet(paymentSockets, hook[w].paymentId) = NoSocket

\* C22 as stated: every stored payment has an amount of at least the minimum
\* threshold (100).
C22_StoredAmountAtLeastMinimum ==
    \A p \in DOMAIN payments : payments[p].amount >= MinAmount

\* C25: between calls the refresh flag is set exactly when the shared promise is set
\* and exactly when an authenticate request is in flight, the cached token is set
\* exactly when its expiry is; the answer to an authenticate request, good or bad,
\* resets flag and promise; and a call that finds no refresh in progress and no
\* usable cached token starts a new cycle of its own.
C25_RefreshStateConsistent ==
    [][/\ isRefreshingToken' <=> tokenRefreshPromise' # NoPromise
       /\ isRefreshingToken' <=> authInFlight' # {}
       /\ tokenRefreshPromise' # NoPromise => authInFlight' = {tokenRefreshPromise'}
       /\ accessToken' # NoToken <=> tokenExpiresAt' # NoDate
       /\ authInFlight' # authInFlight /\ authInFlight' = {} =>
             ~isRefreshingToken' /\ tokenRefreshPromise' = NoPromise
       /\ \A r \in Requests :
             (/\ EntersCashin(r) /\ req'[r].error = NoError
              /\ authInFlight = {}
              /\ ~CachedTokenUsable(accessToken, tokenExpiresAt, now))
             => /\ req'[r].via = "refresh"
                /\ req'[r].cycle = authIssued'
                /\ authIssued' = authIssued + 1
                /\ authInFlight' = {authIssued'}
                /\ \A q \in Requests : q # r => req[q].cycle # req'[r].cycle]_vars

C25_Witness ==
    \E r1 \in Requests, r2 \in Requests :
       /\ req[r1].via = "refresh" /\ req[r1].pc = "done" /\ req[r1].token = NoToken
       /\ req[r2].via = "refresh" /\ req[r2].pc = "await_token"
       /\ req[r2].cycle = 2 /\ req[r1].cycle = 1
       /\ isRefreshingToken /\ tokenRefreshPromise = 2 /\ authInFlight = {2}
       /\ accessToken = NoToken /\ tokenExpiresAt = NoDate

\* C23 as stated: once a socket has disconnected, the registry holds no entry whose
\* channel is that socket, however many payments the socket had registered.
C23_DisconnectedSocketUnregistered ==
    \A s \in Sockets :
       sockets[s] = "disconnected" =>
          \A i \in 1..Len(paymentSockets) : paymentSockets[i].socketId # s

C21_NoCallerWaitsForever ==
    \A r \in Requests : (req[r].pc = "await_token") ~> (req[r].pc # "await_token")

C21_Witness ==
    \E r1 \in Requests, r2 \in Requests :
       /\ req[r1].via = "refresh" /\ req[r2].via = "attached"
       /\ req[r1].cycle = req[r2].cycle
       /\ req[r1].pc = "done" /\ req[r2].pc = "done"
       /\ req[r2].token = NoToken /\ req[r2].response = 500
       /\ req[r2].error = req[r1].error
       /\ authInFlight = {}

====
